---- MODULE Spec2Model ----
(***************************************************************************)
(* Model of DIY_AFM_control_Arduino_firmware_115200_Baud_v_4.ino: the      *)
(* serial command interpreter and the raster scan engine that share one    *)
(* loop() on an AVR (16-bit int, 8-bit output ports).                      *)
(*                                                                         *)
(* Bytes are their ASCII codes.  One pass of loop() is an "iteration": it  *)
(* starts at pc = "top" and ends when pc is "top" again.  The variables    *)
(* whose names start with h_ are observations (what the iteration read,    *)
(* wrote to the ports and to the serial line); the firmware never reads    *)
(* them.                                                                   *)
(***************************************************************************)
EXTENDS Integers, Sequences, FiniteSets, TLC

(* ------------------------------------------------------------------ *)
(* Character and mode constants of the sketch                          *)
(* ------------------------------------------------------------------ *)
CH_p == 112
CH_x == 120
CH_y == 121
CH_g == 103
CH_u == 117
CH_e == 101
CH_a == 97
CH_0 == 48
CH_9 == 57
LF == 10
NUL == 0
RUN == 0
IDLE == 2
maxDigitfx == 3
maxfx == 255
maxDigitfy == 3
maxfy == 255
maxDigitgap == 3
maxgap == 128
maxDigitpoint == 5
LineWidth == 256
InitDelay == 1400

(* Bounds of the exploration *)
MaxFrames == 2
MaxLines == 3

(* ------------------------------------------------------------------ *)
(* Integer widths of the target                                        *)
(* ------------------------------------------------------------------ *)
\* int is 16 bits, two's complement
ToInt16(v) == ((v + 32768) % 65536) - 32768

\* a value stored in an 8-bit port register (PORTL, PORTC)
\* variant: the port saturates at its largest value
ToPortSaturating(v) == IF v > 255 THEN 255 ELSE v
ToPort(v) == v % 256

\* the unsigned int parameter of delayMicroseconds
ToUInt16(v) == v % 65536

(* ------------------------------------------------------------------ *)
(* Command payload parsing                                             *)
(* ------------------------------------------------------------------ *)
isDigit(c) == c >= CH_0 /\ c <= CH_9

\* a char array of n+1 cells, zero-initialised global
ZeroBuf(n) == [k \in 0..n |-> NUL]

\* One test-and-store of the accumulation loop body: the byte c is kept
\* only when it is a digit and the write index is below the capacity.
\* variant: the upper test temp <= '9' is missing
AcceptsNoUpperTest(c, jj, maxDigit) == c >= CH_0 /\ jj < maxDigit
Accepts(c, jj, maxDigit) == isDigit(c) /\ jj < maxDigit

\* atoi on a NUL-terminated digit buffer; the accumulator is a 16-bit int
\* and wraps (avr-libc does no overflow detection).
RECURSIVE AtoiFrom(_, _, _)
AtoiFrom(buf, k, acc) ==
    IF k \in DOMAIN buf /\ isDigit(buf[k])
    THEN AtoiFrom(buf, k + 1, ToInt16(acc * 10 + (buf[k] - CH_0)))
    ELSE acc

atoi(buf) == AtoiFrom(buf, 0, 0)

\* if (v > max) v = max;
Clamp(v, max) == IF v > max THEN max ELSE v

(* ------------------------------------------------------------------ *)
(* The detector: analogRead(A0) depends on where the ports hold the    *)
(* probe and on the surface under it (surf, fixed for a run).           *)
(* ------------------------------------------------------------------ *)
Surfaces == {0, 7}

analogRead(xb, yb, s) == (3 * xb + yb + 5 * s) % 1024

(* ------------------------------------------------------------------ *)
(* The sender: frames put on the serial line one byte at a time.  The  *)
(* sender of one run draws its frames from one vocabulary: the frames  *)
(* of one parameter command with every payload below, or the scan      *)
(* geometry commands y and g with plain payloads; every vocabulary     *)
(* holds the mode commands u and e and the bare line-feed.             *)
(* ------------------------------------------------------------------ *)
\* variant: the switch has no case 'p'
ParamTagsWithoutP == {CH_x, CH_y, CH_g}
\* variant: the line-feed byte opens an accumulation loop too
ParamTagsWithLF == {CH_x, CH_y, CH_g, CH_p, LF}
ParamTags == {CH_x, CH_y, CH_g, CH_p}

Payloads ==
    { <<>>,                                 \* empty
      <<53>>,                               \* "5"
      <<51, 48, 48>>,                       \* "300"
      <<48, 51, 48, 48>>,                   \* "0300"
      <<49, 117, 101, 50>>,                 \* "1ue2"
      <<55, 48, 48, 48, 48>> }              \* "70000"

PlainPayloads == { <<53>>, <<51, 48, 48>> }

ModeFrames == { <<CH_u>>, <<CH_e>>, <<LF>> }

FramesOf(tags, payloads) ==
    { <<t>> \o p \o <<LF>> : t \in tags, p \in payloads } \cup ModeFrames

Profiles == {"x", "y", "g", "p", "scan"}

Vocabulary(pr) ==
    CASE pr = "x" -> FramesOf({CH_x}, Payloads)
      [] pr = "y" -> FramesOf({CH_y}, Payloads)
      [] pr = "g" -> FramesOf({CH_g}, Payloads)
      [] pr = "p" -> FramesOf({CH_p}, Payloads)
      [] pr = "scan" -> FramesOf({CH_y, CH_g}, PlainPayloads)

VARIABLES
    \* firmware globals
    val, j, i, direc, startX, startY, gap, delay_time,
    inputfx, inputfy, inputgap, inputpoint,
    fes, fes_signal,
    \* hardware registers
    PORTL, PORTC,
    \* position in loop()
    pc,
    \* serial line towards the device: received bytes not yet read, the
    \* rest of the frame being sent, number of frames started
    rx, wire, nframes, profile,
    \* the surface under the probe
    surf,
    \* scan lines completed so far
    lines,
    \* observations of the current iteration: the configuration at its
    \* start, whether a byte was available at its start, and everything
    \* the interpreter and then the engine did to the serial line and the
    \* ports, in order
    h_pre, h_avail, h_cmd, h_eng,
    \* observations across scan lines: the Y bus value and the gap of the
    \* last completed line, and whether a y command came since
    h_prevY, h_prevGap, h_ySince

firmware == <<val, j, i, direc, startX, startY, gap, delay_time,
              inputfx, inputfy, inputgap, inputpoint, fes, fes_signal>>
ports == <<PORTL, PORTC>>
sender == <<wire, nframes, profile, surf>>
obsIter == <<h_pre, h_avail, h_cmd, h_eng>>
obsLine == <<h_prevY, h_prevGap, h_ySince>>
vars == <<firmware, ports, pc, rx, sender, lines, obsIter, obsLine>>

\* the configuration record and the two buses, as one value
Config == [direc |-> direc, startX |-> startX, startY |-> startY,
           gap |-> gap, delay_time |-> delay_time,
           PORTL |-> PORTL, PORTC |-> PORTC]

\* Events of h_cmd and h_eng
EvRead(b) == <<"read", b>>             \* Serial.read() returned the byte b
EvPrint(b) == <<"print", b>>           \* Serial.print of one character
EvPrintln(v) == <<"println", v>>       \* Serial.println of an int
EvX(v) == <<"X", v>>                   \* PORTL = v
EvY(v) == <<"Y", v>>                   \* PORTC = v
EvDwell(d) == <<"dwell", d>>           \* delayMicroseconds(d)
EvAdc(v) == <<"adc", v>>               \* analogRead(A0) returned v
EvStartY(v) == <<"startY", v>>         \* startY += gap gave v

(* ------------------------------------------------------------------ *)
(* setup() and the initial values of the globals                       *)
(* ------------------------------------------------------------------ *)
Init ==
    /\ val = NUL /\ j = 0 /\ i = 0
    /\ direc = IDLE
    /\ startX = 0 /\ startY = 0 /\ gap = 0
    /\ delay_time = InitDelay
    /\ inputfx = ZeroBuf(maxDigitfx)
    /\ inputfy = ZeroBuf(maxDigitfy)
    /\ inputgap = ZeroBuf(maxDigitgap)
    /\ inputpoint = ZeroBuf(maxDigitpoint)
    /\ fes = [k \in 0..(LineWidth - 1) |-> 0]
    /\ fes_signal = 0
    /\ PORTL = 0 /\ PORTC = 0
    /\ pc = "top"
    /\ rx = <<>> /\ wire = <<>> /\ nframes = 0
    /\ profile \in Profiles
    /\ surf \in Surfaces
    /\ lines = 0
    /\ h_pre = [direc |-> IDLE, startX |-> 0, startY |-> 0, gap |-> 0,
                delay_time |-> InitDelay, PORTL |-> 0, PORTC |-> 0]
    /\ h_avail = FALSE /\ h_cmd = <<>> /\ h_eng = <<>>
    /\ h_prevY = 0 /\ h_prevGap = 0 /\ h_ySince = FALSE

(* ------------------------------------------------------------------ *)
(* Sender actions                                                      *)
(* ------------------------------------------------------------------ *)
\* The sender acts at the points where the firmware looks at the receive
\* buffer, the top of loop() and the accumulation loops: what arrives
\* while the engine runs is seen at the next of these points.
SenderFrame ==
    /\ wire = <<>>
    /\ nframes < MaxFrames
    /\ pc \in {"top", "acc"}
    /\ \E f \in Vocabulary(profile) : wire' = f
    /\ nframes' = nframes + 1
    /\ UNCHANGED <<firmware, ports, pc, rx, profile, surf, lines,
                   obsIter, obsLine>>

SenderByte ==
    /\ wire # <<>>
    /\ pc \in {"top", "acc"}
    /\ rx' = Append(rx, Head(wire))
    /\ wire' = Tail(wire)
    /\ UNCHANGED <<firmware, ports, pc, nframes, profile, surf, lines,
                   obsIter, obsLine>>

(* ------------------------------------------------------------------ *)
(* Command interpreter: the if (Serial.available()) block of loop()    *)
(* ------------------------------------------------------------------ *)
\* if (direc == 0) Serial.print('a');
\* variant: the acknowledgement is written in either mode
AckAlways(d) == <<EvPrint(CH_a)>>
Ack(d) == IF d = RUN THEN <<EvPrint(CH_a)>> ELSE <<>>

\* What every pass of loop() starts with: the configuration at its start
\* is remembered, and whether Serial.available() was non-zero.
StartIter ==
    /\ pc = "top"
    /\ h_pre' = Config
    /\ h_avail' = (rx # <<>>)

\* Serial.available() is 0: the interpreter is skipped.
PollNone ==
    /\ StartIter
    /\ rx = <<>>
    /\ h_cmd' = <<>>
    /\ pc' = "engine"
    /\ UNCHANGED <<firmware, ports, rx, sender, lines, h_eng, obsLine>>

\* val = Serial.read() is one of p, x, y, g: j = 0 and the while loop
\* of that case is entered.
\* variant: the case assigns nothing and does not wait for the line-feed
TagParamNoWait ==
    /\ StartIter
    /\ rx # <<>> /\ Head(rx) \in ParamTags
    /\ val' = Head(rx) /\ rx' = Tail(rx)
    /\ h_cmd' = <<EvRead(Head(rx))>> \o Ack(direc)
    /\ j' = 0
    /\ pc' = "engine"
    /\ UNCHANGED <<i, direc, startX, startY, gap, delay_time,
                   inputfx, inputfy, inputgap, inputpoint, fes, fes_signal,
                   ports, sender, lines, h_eng, obsLine>>
TagParam ==
    /\ StartIter
    /\ rx # <<>> /\ Head(rx) \in ParamTags
    /\ val' = Head(rx) /\ rx' = Tail(rx)
    /\ h_cmd' = <<EvRead(Head(rx))>>
    /\ j' = 0
    /\ pc' = "acc"
    /\ UNCHANGED <<i, direc, startX, startY, gap, delay_time,
                   inputfx, inputfy, inputgap, inputpoint, fes, fes_signal,
                   ports, sender, lines, h_eng, obsLine>>

\* case 'u'
TagU ==
    /\ StartIter
    /\ rx # <<>> /\ Head(rx) = CH_u
    /\ val' = Head(rx) /\ rx' = Tail(rx)
    /\ direc' = RUN
    /\ h_cmd' = <<EvRead(Head(rx))>> \o Ack(direc')
    /\ pc' = "engine"
    /\ UNCHANGED <<j, i, startX, startY, gap, delay_time,
                   inputfx, inputfy, inputgap, inputpoint, fes, fes_signal,
                   ports, sender, lines, h_eng, obsLine>>

\* case 'e'
\* variant: case 'e' zeroes the buses but leaves the mode
TagEStaysRun ==
    /\ StartIter
    /\ rx # <<>> /\ Head(rx) = CH_e
    /\ val' = Head(rx) /\ rx' = Tail(rx)
    /\ PORTL' = ToPort(0)
    /\ PORTC' = ToPort(0)
    /\ h_cmd' = <<EvRead(Head(rx)), EvX(PORTL'), EvY(PORTC')>> \o Ack(direc)
    /\ pc' = "engine"
    /\ UNCHANGED <<j, i, direc, startX, startY, gap, delay_time,
                   inputfx, inputfy, inputgap, inputpoint, fes, fes_signal,
                   sender, lines, h_eng, obsLine>>
\* variant: case 'e' sets the mode but leaves the buses
TagEWithoutZeroing ==
    /\ StartIter
    /\ rx # <<>> /\ Head(rx) = CH_e
    /\ val' = Head(rx) /\ rx' = Tail(rx)
    /\ direc' = IDLE
    /\ h_cmd' = <<EvRead(Head(rx))>> \o Ack(direc')
    /\ pc' = "engine"
    /\ UNCHANGED <<j, i, startX, startY, gap, delay_time,
                   inputfx, inputfy, inputgap, inputpoint, fes, fes_signal,
                   ports, sender, lines, h_eng, obsLine>>
TagE ==
    /\ StartIter
    /\ rx # <<>> /\ Head(rx) = CH_e
    /\ val' = Head(rx) /\ rx' = Tail(rx)
    /\ direc' = IDLE
    /\ PORTL' = ToPort(0)
    /\ PORTC' = ToPort(0)
    /\ h_cmd' = <<EvRead(Head(rx)), EvX(PORTL'), EvY(PORTC')>> \o Ack(direc')
    /\ pc' = "engine"
    /\ UNCHANGED <<j, i, startX, startY, gap, delay_time,
                   inputfx, inputfy, inputgap, inputpoint, fes, fes_signal,
                   sender, lines, h_eng, obsLine>>

\* any other byte: no case of the switch matches
TagOther ==
    /\ StartIter
    /\ rx # <<>> /\ Head(rx) \notin (ParamTags \cup {CH_u, CH_e})
    /\ val' = Head(rx) /\ rx' = Tail(rx)
    /\ h_cmd' = <<EvRead(Head(rx))>> \o Ack(direc)
    /\ pc' = "engine"
    /\ UNCHANGED <<j, i, direc, startX, startY, gap, delay_time,
                   inputfx, inputfy, inputgap, inputpoint, fes, fes_signal,
                   ports, sender, lines, h_eng, obsLine>>

\* digit capacity of the buffer of the case being executed
maxDigitOf(tag) ==
    CASE tag = CH_p -> maxDigitpoint
      [] tag = CH_x -> maxDigitfx
      [] tag = CH_y -> maxDigitfy
      [] tag = CH_g -> maxDigitgap

\* the body of the while loop: inputf[j] = temp; j++ when accepted
Store(buf, c, jj, maxDigit) ==
    IF Accepts(c, jj, maxDigit) THEN [buf EXCEPT ![jj] = c] ELSE buf

Bump(c, jj, maxDigit) == IF Accepts(c, jj, maxDigit) THEN jj + 1 ELSE jj

\* inputf[j] = '\0';
Terminate(buf, jj) == [buf EXCEPT ![jj] = NUL]

\* what Serial.read() returns when nothing has been received
NoByte == -1

\* Serial.read() in the while condition returns -1: it is not '\n' and not
\* a digit, so the loop goes round again with nothing changed.
AccSpin ==
    /\ pc = "acc"
    /\ rx = <<>>
    /\ NoByte # LF
    /\ j' = Bump(NoByte, j, maxDigitOf(val))
    /\ UNCHANGED <<val, i, direc, startX, startY, gap, delay_time,
                   inputfx, inputfy, inputgap, inputpoint,
                   fes, fes_signal, ports, pc, rx, sender, lines,
                   obsIter, obsLine>>

\* a byte other than '\n' is read inside the while loop
AccByte ==
    /\ pc = "acc"
    /\ rx # <<>> /\ Head(rx) # LF
    /\ LET c == Head(rx) IN
        /\ rx' = Tail(rx)
        /\ h_cmd' = Append(h_cmd, EvRead(c))
        /\ inputpoint' = IF val = CH_p
                         THEN Store(inputpoint, c, j, maxDigitpoint)
                         ELSE inputpoint
        /\ inputfx' = IF val = CH_x
                      THEN Store(inputfx, c, j, maxDigitfx) ELSE inputfx
        /\ inputfy' = IF val = CH_y
                      THEN Store(inputfy, c, j, maxDigitfy) ELSE inputfy
        /\ inputgap' = IF val = CH_g
                       THEN Store(inputgap, c, j, maxDigitgap) ELSE inputgap
        /\ j' = Bump(c, j, maxDigitOf(val))
    /\ UNCHANGED <<val, i, direc, startX, startY, gap, delay_time,
                   fes, fes_signal, ports, pc, sender, lines,
                   h_pre, h_avail, h_eng, obsLine>>

\* the values the four cases assign after their loop
ParsePoint(buf) == atoi(buf)
ParseX(buf) == Clamp(atoi(buf), maxfx)
ParseY(buf) == Clamp(atoi(buf), maxfy)
\* variant: the gap case clamps with the ceiling of the x case
ParseGapWrongCeiling(buf) == Clamp(atoi(buf), maxfx)
ParseGap(buf) == Clamp(atoi(buf), maxgap)

\* The value a case assigns when its loop reads the bytes of a payload and
\* then the line-feed, as a function of the payload.
RECURSIVE AccumulateAll(_, _, _, _)
AccumulateAll(buf, jj, bytes, maxDigit) ==
    IF bytes = <<>> THEN [buf |-> buf, j |-> jj]
    ELSE AccumulateAll(Store(buf, Head(bytes), jj, maxDigit),
                       Bump(Head(bytes), jj, maxDigit),
                       Tail(bytes), maxDigit)

CommitValue(tag, buf) ==
    CASE tag = CH_p -> ParsePoint(buf)
      [] tag = CH_x -> ParseX(buf)
      [] tag = CH_y -> ParseY(buf)
      [] tag = CH_g -> ParseGap(buf)

ReadPayload(tag, bytes) ==
    LET r == AccumulateAll(ZeroBuf(maxDigitOf(tag)), 0, bytes, maxDigitOf(tag))
    IN CommitValue(tag, Terminate(r.buf, r.j))

\* variant: the loop test is missing, '\n' is read like any other byte
AccCommitKeepsLooping ==
    /\ pc = "acc"
    /\ rx # <<>> /\ Head(rx) = LF
    /\ rx' = Tail(rx)
    /\ h_cmd' = Append(h_cmd, EvRead(LF))
    /\ UNCHANGED <<firmware, ports, pc, sender, lines,
                   h_pre, h_avail, h_eng, obsLine>>

\* '\n' is read: the loop ends, the buffer is terminated, the field of the
\* case is assigned, and the acknowledgement follows the switch.
AccCommit ==
    /\ pc = "acc"
    /\ rx # <<>> /\ Head(rx) = LF
    /\ rx' = Tail(rx)
    /\ inputpoint' = IF val = CH_p THEN Terminate(inputpoint, j)
                     ELSE inputpoint
    /\ inputfx' = IF val = CH_x THEN Terminate(inputfx, j) ELSE inputfx
    /\ inputfy' = IF val = CH_y THEN Terminate(inputfy, j) ELSE inputfy
    /\ inputgap' = IF val = CH_g THEN Terminate(inputgap, j) ELSE inputgap
    /\ delay_time' = IF val = CH_p THEN ParsePoint(inputpoint')
                     ELSE delay_time
    /\ startX' = IF val = CH_x THEN ParseX(inputfx') ELSE startX
    /\ startY' = IF val = CH_y THEN ParseY(inputfy') ELSE startY
    /\ gap' = IF val = CH_g THEN ParseGap(inputgap') ELSE gap
    /\ h_ySince' = (h_ySince \/ val = CH_y)
    /\ h_cmd' = Append(h_cmd, EvRead(LF)) \o Ack(direc)
    /\ pc' = "engine"
    /\ UNCHANGED <<val, j, i, direc, fes, fes_signal, ports, sender, lines,
                   h_pre, h_avail, h_eng, h_prevY, h_prevGap>>

(* ------------------------------------------------------------------ *)
(* Raster scan engine: the if (direc == 0) ... else ... of loop()      *)
(* ------------------------------------------------------------------ *)
\* for (i = 0; i < 256; i++) { PORTL = i; delayMicroseconds(delay_time);
\*                             fes[i] = analogRead(A0); }
\* The loop body runs SweepCount times; its n-th run has i = SweepIndex(n).
\* variant: the loop test is i < 255
SweepCountShort == LineWidth - 1
SweepCount == LineWidth
\* variant: the sweep starts at the X origin
SweepIndexFromOrigin(n) == startX + n - 1
SweepIndex(n) == n - 1
SweepIters == {SweepIndex(n) : n \in 1..SweepCount}

\* the body for one value k of i: the port write, the pause, the sample
SweepBody(k, yb, d, s) ==
    <<EvX(ToPort(k)), EvDwell(ToUInt16(d)), EvAdc(analogRead(ToPort(k), yb, s))>>

\* what the whole loop does, in order
SweepLog(yb, d, s) ==
    [n \in 1..(3 * SweepCount) |->
        SweepBody(SweepIndex(((n - 1) \div 3) + 1), yb, d, s)[((n - 1) % 3) + 1]]

\* fes after the loop: cell k holds the sample taken with PORTL = k
SweepFes(old, yb, s) ==
    [k \in DOMAIN old |->
        IF k \in SweepIters THEN analogRead(ToPort(k), yb, s) ELSE old[k]]

\* startY += gap;
\* variant: the line advance always steps by one row
NextYByOne(sy, g) == ToInt16(sy + 1)
\* variant: the line advance is missing
NextYNoAdvance(sy, g) == sy
NextY(sy, g) == ToInt16(sy + g)

\* for (i = 0; i < 256; i++) { Serial.println(fes[i]); delayMicroseconds(50); }
EmitCount == LineWidth
\* variant: the buffer is sent from its last cell down
EmitIndexReversed(n) == LineWidth - n
EmitIndex(n) == n - 1

EmitLines(f) == [n \in 1..EmitCount |-> EvPrintln(f[EmitIndex(n)])]

\* variant: every pixel pauses for the initial delay, whatever delay_time is
LineLogFixedDwell(sy, g, d, s, f) ==
    <<EvY(ToPort(sy))>>
    \o SweepLog(ToPort(sy), InitDelay, s)
    \o <<EvStartY(NextY(sy, g))>>
    \o EmitLines(f)

\* One scan line, lines 136-153 in their order: the Y write, the sweep,
\* the advance of startY, the emission of the buffered samples.
LineLog(sy, g, d, s, f) ==
    <<EvY(ToPort(sy))>>
    \o SweepLog(ToPort(sy), d, s)
    \o <<EvStartY(NextY(sy, g))>>
    \o EmitLines(f)

\* if (direc == 0) of line 134
\* variant: the scan branch is taken in either mode
EngineRunsAlways(d) == TRUE
EngineRuns(d) == d = RUN

RunStep ==
    /\ pc = "engine"
    /\ EngineRuns(direc)
    /\ lines < MaxLines
    /\ PORTC' = ToPort(startY)
    /\ fes' = SweepFes(fes, PORTC', surf)
    /\ h_eng' = h_eng \o LineLog(startY, gap, delay_time, surf, fes')
    /\ PORTL' = IF SweepCount > 0 THEN ToPort(SweepIndex(SweepCount))
                ELSE PORTL
    /\ startY' = NextY(startY, gap)
    /\ i' = EmitIndex(EmitCount) + 1
    /\ lines' = lines + 1
    /\ pc' = "end"
    /\ UNCHANGED <<val, j, direc, startX, gap, delay_time,
                   inputfx, inputfy, inputgap, inputpoint, fes_signal,
                   rx, sender, h_pre, h_avail, h_cmd, obsLine>>

\* fes_signal = analogRead(A0); Serial.println(fes_signal); delay(10);
IdleLog(v) == <<EvAdc(v), EvPrintln(v)>>

IdleStep ==
    /\ pc = "engine"
    /\ ~ EngineRuns(direc)
    /\ fes_signal' = analogRead(PORTL, PORTC, surf)
    /\ h_eng' = h_eng \o IdleLog(fes_signal')
    /\ pc' = "end"
    /\ UNCHANGED <<val, j, i, direc, startX, startY, gap, delay_time,
                   inputfx, inputfy, inputgap, inputpoint, fes,
                   ports, rx, sender, lines,
                   h_pre, h_avail, h_cmd, obsLine>>

\* loop() returns and is called again; the observations of the finished
\* pass are dropped.  When the pass scanned a line, the Y bus value and
\* the gap of that line are remembered for the next line.
EmptyPre == [direc |-> IDLE, startX |-> 0, startY |-> 0, gap |-> 0,
             delay_time |-> InitDelay, PORTL |-> 0, PORTC |-> 0]

Return ==
    /\ pc = "end"
    /\ pc' = "top"
    /\ h_pre' = EmptyPre
    /\ h_avail' = FALSE
    /\ h_cmd' = <<>>
    /\ h_eng' = <<>>
    /\ IF h_eng # <<>> /\ h_eng[1][1] = "Y"
       THEN /\ h_prevY' = PORTC
            /\ h_prevGap' = gap
            /\ h_ySince' = FALSE
       ELSE UNCHANGED obsLine
    /\ UNCHANGED <<firmware, ports, rx, sender, lines>>

(* ------------------------------------------------------------------ *)
(* Specification                                                       *)
(* ------------------------------------------------------------------ *)
Next ==
    \/ SenderFrame
    \/ SenderByte
    \/ PollNone
    \/ TagParam
    \/ TagU
    \/ TagE
    \/ TagOther
    \/ AccSpin
    \/ AccByte
    \/ AccCommit
    \/ RunStep
    \/ IdleStep
    \/ Return

Spec == Init /\ [][Next]_vars

\* The processor keeps running loop(): whatever statement it is at is
\* eventually executed.  The well-behaved sender finishes every frame it
\* started, so the line-feed that ends a parameter frame does arrive.
Device ==
    \/ PollNone \/ TagParam \/ TagU \/ TagE \/ TagOther
    \/ AccByte \/ AccCommit
    \/ RunStep \/ IdleStep \/ Return

FairSpec == Init /\ [][Next]_vars /\ WF_vars(Device) /\ WF_vars(SenderByte)

(* ================================================================== *)
(* Properties                                                          *)
(* ================================================================== *)
(* Views of the observations of the current pass *)
CmdKind(k) == SelectSeq(h_cmd, LAMBDA e : e[1] = k)
Reads == [n \in 1..Len(CmdKind("read")) |-> CmdKind("read")[n][2]]
Acks == SelectSeq(h_cmd \o h_eng, LAMBDA e : e = <<"print", 97>>)

\* the interpreter of this pass is over
Interpreted == pc \in {"engine", "end"}
\* ... and it processed the command with this tag
Processed(tag) == Interpreted /\ Reads # <<>> /\ Reads[1] = tag
\* the payload bytes of a processed parameter command (tag and the
\* terminating line-feed left out)
Payload == SubSeq(Reads, 2, Len(Reads) - 1)

\* Reference reading of a payload, independent of the firmware's buffers
DigitBytes == 48..57
DigitsOf(bytes) == SelectSeq(bytes, LAMBDA c : c \in DigitBytes)
FirstN(seq, n) == SubSeq(seq, 1, IF Len(seq) < n THEN Len(seq) ELSE n)
RECURSIVE DecValue(_)
DecValue(ds) ==
    IF ds = <<>> THEN 0
    ELSE 10 * DecValue(SubSeq(ds, 1, Len(ds) - 1)) + (ds[Len(ds)] - 48)
Min2(a, b) == IF a < b THEN a ELSE b

\* the field a command sets, and the documented ceiling of x, y, g
ClampedTags == {120, 121, 103}
AllParamTags == {120, 121, 103, 112}
CommandTags == {120, 121, 103, 112, 117, 101}
FieldOf(tag) ==
    CASE tag = 120 -> startX
      [] tag = 121 -> startY
      [] tag = 103 -> gap
      [] tag = 112 -> delay_time
FieldName(tag) ==
    CASE tag = 120 -> "startX"
      [] tag = 121 -> "startY"
      [] tag = 103 -> "gap"
      [] tag = 112 -> "delay_time"
CeilingOf(tag) ==
    CASE tag = 120 -> 255
      [] tag = 121 -> 255
      [] tag = 103 -> 128

(* C1 (as stated): after an x, y or g command, the field equals the       *)
(* ceiling when the decimal value of the payload exceeds the ceiling, and *)
(* the decimal value of the payload otherwise.                            *)
C1_AsStated ==
    \A t \in ClampedTags :
        (pc = "engine" /\ Processed(t)) =>
            FieldOf(t) = Min2(CeilingOf(t), DecValue(DigitsOf(Payload)))

(* C1 (amended): after an x, y or g command, the field equals the ceiling *)
(* when the decimal value of the first three digits of the payload        *)
(* exceeds the ceiling, and that value otherwise.                         *)
C1_ClampFirstThreeDigits ==
    \A t \in ClampedTags :
        (pc = "engine" /\ Processed(t)) =>
            FieldOf(t) = Min2(CeilingOf(t),
                              DecValue(FirstN(DigitsOf(Payload), 3)))

\* a g command whose three-digit payload is above 128 has been clamped,
\* or an x command whose payload is above 255
C1_Witness ==
    /\ pc = "engine"
    /\ \/ Processed(103) /\ Len(DigitsOf(Payload)) = 3
          /\ DecValue(DigitsOf(Payload)) > 128 /\ gap = 128
       \/ Processed(120) /\ Len(DigitsOf(Payload)) = 3
          /\ DecValue(DigitsOf(Payload)) > 255 /\ startX = 255

(* C2: a parameter command whose payload has non-digit bytes among the    *)
(* digits sets its field to what the same payload without the non-digit   *)
(* bytes gives (for up to three digits, five for p below 32768: their     *)
(* decimal value, clamped for x, y, g); an empty payload gives 0; the     *)
(* non-digit bytes change nothing else: mode, buses and the other fields  *)
(* are as before the command.                                             *)
PlainValue(tag, ds) ==
    IF tag = 112 THEN DecValue(ds) ELSE Min2(CeilingOf(tag), DecValue(ds))
IsPlain(tag, ds) ==
    IF tag = 112 THEN Len(ds) <= 5 /\ DecValue(ds) < 32768 ELSE Len(ds) <= 3

C2_NonDigitsIgnored ==
    \A t \in AllParamTags :
        (pc = "engine" /\ Processed(t)) =>
            LET ds == DigitsOf(Payload) IN
            /\ FieldOf(t) = ReadPayload(t, ds)
            /\ IsPlain(t, ds) => FieldOf(t) = PlainValue(t, ds)
            /\ ds = <<>> => FieldOf(t) = 0
            /\ Config = [h_pre EXCEPT ![FieldName(t)] = FieldOf(t)]

\* in RUN mode, a payload with the letters u and e among its digits has
\* been read as 12
C2_Witness ==
    /\ pc = "engine"
    /\ \E t \in AllParamTags :
         /\ Processed(t)
         /\ \E n \in 1..Len(Payload) : Payload[n] = 101
         /\ \E n \in 1..Len(Payload) : Payload[n] = 117
         /\ DigitsOf(Payload) = <<49, 50>>
         /\ FieldOf(t) = 12
    /\ direc = 0

(* Views of a scan line: the pass ran the engine in RUN mode *)
LineRan == pc = "end" /\ direc = 0

\* The engine log of a line starts with one Y write, followed by 256 times
\* an X write (0, 1, ..., 255 in this order), the pause, one sample.
SweepShape ==
    /\ Len(h_eng) >= 769
    /\ h_eng[1][1] = "Y"
    /\ \A n \in 1..256 :
          /\ h_eng[3 * n - 1] = <<"X", n - 1>>
          /\ h_eng[3 * n][1] = "dwell"
          /\ h_eng[3 * n + 1][1] = "adc"

\* from position `from` to position `to` of the engine log, exactly 256
\* sample lines
EmitShape(from, to) ==
    /\ to - from + 1 = 256
    /\ to <= Len(h_eng)
    /\ \A n \in from..to : h_eng[n][1] = "println"

(* C3 (as stated): a scan line writes X with 0..255 in ascending order,   *)
(* takes one sample after each X write, and has emitted its 256 samples   *)
(* when it advances Y.                                                    *)
C3_AsStated ==
    LineRan =>
        /\ SweepShape
        /\ Len(h_eng) = 1026
        /\ EmitShape(770, 1025)
        /\ h_eng[1026] = <<"startY", startY>>

(* C3 (amended): a scan line writes X with 0..255 in ascending order,     *)
(* takes exactly one sample after each X write (256 samples), then        *)
(* advances Y once (startY += gap), and only then emits exactly 256       *)
(* sample lines.                                                          *)
C3_SweepThenAdvanceThenEmit ==
    LineRan =>
        /\ SweepShape
        /\ Len(h_eng) = 1026
        /\ h_eng[770] = <<"startY", startY>>
        /\ EmitShape(771, 1026)

\* a line with a positive gap is complete: its last X write was 255 and
\* startY has moved
C3_Witness ==
    /\ LineRan
    /\ PORTL = 255
    /\ gap > 0
    /\ startY = h_pre.startY + gap

\* the Y bus is written once in the pass of a line, first thing of the line
OneYWrite ==
    /\ h_eng # <<>>
    /\ h_eng[1][1] = "Y"
    /\ \A n \in 2..Len(h_eng) : h_eng[n][1] # "Y"
    /\ \A n \in 1..Len(h_cmd) : h_cmd[n][1] # "Y"
    /\ PORTC = h_eng[1][2]

(* C4 (as stated): the Y bus is written once per line, at its start; on   *)
(* the line that follows a u command the value is the Y origin from       *)
(* before the u; with no y command in between, the value of the next line *)
(* is the value of the previous line plus the gap.                        *)
C4_AsStated ==
    LineRan =>
        /\ OneYWrite
        /\ Processed(117) => h_eng[1][2] = h_pre.startY
        /\ (lines >= 2 /\ ~ h_ySince) => h_eng[1][2] = h_prevY + h_prevGap

(* C4 (amended): as stated, with the values taken modulo 256, the width   *)
(* of the Y bus: the line after u shows the Y origin modulo 256, and the  *)
(* next line shows the previous line's value plus the gap, modulo 256.    *)
C4_YBusModulo256 ==
    LineRan =>
        /\ OneYWrite
        /\ Processed(117) => h_eng[1][2] = h_pre.startY % 256
        /\ (Processed(117) /\ h_pre.startY <= 255)
              => h_eng[1][2] = h_pre.startY
        /\ (lines >= 2 /\ ~ h_ySince)
              => h_eng[1][2] = (h_prevY + h_prevGap) % 256

\* a second line with a positive gap and no y command since the first
C4_Witness ==
    /\ LineRan
    /\ lines >= 2 /\ ~ h_ySince
    /\ h_prevGap > 0
    /\ h_eng[1] = <<"Y", h_prevY + h_prevGap>>

(* C5: in every pass of the loop, the byte 'a' is written exactly when    *)
(* the pass processed one of the commands x, y, g, p, u, e and the mode   *)
(* is RUN afterwards; it is written at most once per pass.                *)
C5_AckIffCommandInRun ==
    Interpreted =>
        /\ Len(Acks) <= 1
        /\ (Len(Acks) = 1) <=>
              (Reads # <<>> /\ Reads[1] \in CommandTags /\ direc = 0)

(* C6: an e command processed while the mode is IDLE leaves mode, startX, *)
(* startY, gap and delay_time as they were, writes no acknowledgement and *)
(* leaves both buses at 0; after any e the mode is IDLE and both buses    *)
(* are 0, so a second e finds the state the first one left.               *)
C6_EWhileIdle ==
    (pc = "engine" /\ Processed(101)) =>
        /\ Reads = <<101>>
        /\ Acks = <<>>
        /\ Config = [h_pre EXCEPT !.direc = 2, !.PORTL = 0, !.PORTC = 0]
        /\ h_pre.direc = 2 => Config = h_pre

\* e arrives in IDLE mode after the configuration has been changed
C6_Witness ==
    /\ pc = "engine" /\ Processed(101)
    /\ h_pre.direc = 2
    /\ h_pre.startX + h_pre.startY + h_pre.gap > 0

(* C7: after a p command with at most five digits, delay_time is the      *)
(* decimal value of the payload; delay_time is never negative; every      *)
(* pixel of a scan line pauses for delay_time.                            *)
C7_DwellIsPayloadValue ==
    /\ delay_time >= 0
    /\ (pc = "engine" /\ Processed(112) /\ Len(DigitsOf(Payload)) <= 5)
          => delay_time = DecValue(DigitsOf(Payload))
    /\ (LineRan /\ Len(h_eng) >= 769)
          => \A n \in 1..256 : h_eng[3 * n] = <<"dwell", delay_time>>

(* C8: a pass in RUN mode sends either 256 sample lines or the byte 'a'   *)
(* followed by 256 sample lines, and nothing else; the n-th line carries  *)
(* the n-th sample of the sweep of that pass, the one taken at X = n - 1. *)
C8_BlocksOf256 ==
    LineRan =>
        /\ Len(h_eng) = 1026
        /\ \A n \in 1..Len(h_cmd) :
              h_cmd[n][1] \in {"print", "println"}
                 => (n = Len(h_cmd) /\ h_cmd[n] = <<"print", 97>>)
        /\ \A n \in 1..770 : h_eng[n][1] \notin {"print", "println"}
        /\ \A n \in 1..256 :
              /\ h_eng[3 * n - 1] = <<"X", n - 1>>
              /\ h_eng[3 * n + 1][1] = "adc"
              /\ h_eng[770 + n] = <<"println", h_eng[3 * n + 1][2]>>

\* an acknowledged line whose samples are not all alike
C8_Witness ==
    /\ LineRan
    /\ Len(h_eng) = 1026
    /\ h_cmd # <<>> /\ h_cmd[Len(h_cmd)] = <<"print", 97>>
    /\ h_eng[771] # h_eng[772]

(* C9: a pass whose engine step runs in IDLE mode takes exactly one       *)
(* sample and sends exactly one sample line, with that sample; the engine *)
(* writes neither bus and does not advance startY.                        *)
C9_IdleStepOneSample ==
    (pc = "end" /\ direc # 0) =>
        /\ Len(h_eng) = 2
        /\ h_eng[1][1] = "adc"
        /\ h_eng[2] = <<"println", h_eng[1][2]>>
        /\ \A n \in 1..Len(h_cmd) : h_cmd[n][1] \notin {"adc", "println"}
        /\ ~ Processed(101) => (PORTL = h_pre.PORTL /\ PORTC = h_pre.PORTC)
        /\ Processed(101) => (PORTL = 0 /\ PORTC = 0)
        /\ ~ Processed(121) => startY = h_pre.startY

\* an idle pass with a positive gap configured
C9_Witness ==
    /\ pc = "end" /\ direc = 2
    /\ gap > 0
    /\ Reads = <<>>

(* C10: a pass that starts with no byte available reads nothing, changes  *)
(* no configuration field, writes no acknowledgement and does not enter   *)
(* an accumulation loop; a pass that starts with a byte available reads   *)
(* one tag byte and, for x, y, g, p, the bytes up to and including the    *)
(* first line-feed, and nothing after it.                                 *)
C10_OneCommandPerPass ==
    /\ pc = "acc" =>
          /\ h_avail
          /\ Reads[1] \in AllParamTags
          /\ \A n \in 2..Len(Reads) : Reads[n] # 10
    /\ Interpreted =>
          IF ~ h_avail
          THEN /\ h_cmd = <<>>
               /\ pc = "engine" => Config = h_pre
          ELSE /\ Len(Reads) >= 1
               /\ IF Reads[1] \in AllParamTags
                  THEN /\ Len(Reads) >= 2
                       /\ Reads[Len(Reads)] = 10
                       /\ \A n \in 2..(Len(Reads) - 1) : Reads[n] # 10
                  ELSE Len(Reads) = 1

\* a parameter command has been processed and a later byte is still
\* waiting in the receive buffer
C10_Witness ==
    /\ pc = "engine"
    /\ \E t \in AllParamTags : Processed(t)
    /\ rx # <<>>

(* Shapes of a log *)
IdleShape(log) ==
    Len(log) = 2 /\ log[1][1] = "adc" /\ log[2] = <<"println", log[1][2]>>
NoBusWrite(log) == \A n \in 1..Len(log) : log[n][1] \notin {"X", "Y"}
OnlyZeroing(log) ==
    \A n \in 1..Len(log) :
        log[n][1] \in {"X", "Y"} => (log[n][2] = 0 /\ log[1] = <<"read", 101>>)

\* what every step of the system satisfies, for C11
C11_Step ==
    \* the engine step (a whole line, from its Y write to its 256th sample
    \* line) takes no byte from the receive buffer
    /\ pc = "engine" => rx' = rx
    \* the pass that processed e does an idle step, not a line
    /\ (pc = "engine" /\ Processed(101)) =>
          (IdleShape(h_eng') /\ lines' = lines /\ direc' = 2)
    \* while the mode is IDLE the engine writes no bus and emits no line,
    \* and the buses change only by the zeroing of e
    /\ direc' = 2 =>
          /\ NoBusWrite(h_eng') /\ Len(h_eng') <= 2
          /\ OnlyZeroing(h_cmd')
          /\ (PORTL' # PORTL \/ PORTC' # PORTC) =>
                /\ pc = "top" /\ rx # <<>> /\ Head(rx) = 101
                /\ PORTL' = 0 /\ PORTC' = 0
    \* RUN to IDLE only by e, IDLE to RUN only by u
    /\ direc' # direc =>
          /\ pc = "top" /\ rx # <<>>
          /\ \/ direc = 0 /\ direc' = 2 /\ Head(rx) = 101
             \/ direc = 2 /\ direc' = 0 /\ Head(rx) = 117

(* C11: an e command takes effect only between scan lines: the engine     *)
(* step consumes no serial byte; the pass that processes e performs an    *)
(* idle step, not a scan line; while the mode is IDLE after e no bus is   *)
(* written except by the zeroing of e and no scan line is emitted, until  *)
(* a u is processed; the mode goes from RUN to IDLE only by e and from    *)
(* IDLE to RUN only by u.                                                 *)
C11_EOnlyBetweenLines == [][C11_Step]_vars

\* e has been processed in RUN mode after a completed line, and the pass
\* ended with an idle step
C11_Witness ==
    /\ pc = "end" /\ Processed(101)
    /\ h_pre.direc = 0 /\ direc = 2
    /\ lines > 0
    /\ IdleShape(h_eng)

(* C12: once a parameter tag has been read and until a line-feed is read, *)
(* the pass stays in the accumulation loop: the engine has taken no step  *)
(* (no bus write, no sample, no serial output), and the configuration is  *)
(* the one the pass started with, in RUN mode as in IDLE mode; a pass     *)
(* that read a parameter tag gets to its engine step only with a          *)
(* line-feed as the last byte read, so without a line-feed it never does. *)
C12_BlockedUntilLineFeed ==
    /\ pc = "acc" =>
          /\ Reads # <<>> /\ Reads[1] \in AllParamTags
          /\ \A n \in 2..Len(Reads) : Reads[n] # 10
          /\ h_eng = <<>>
          /\ \A n \in 1..Len(h_cmd) : h_cmd[n][1] = "read"
          /\ Config = h_pre
    /\ \A t \in AllParamTags :
          Processed(t) => (Len(Reads) >= 2 /\ Reads[Len(Reads)] = 10)

\* in RUN mode, after a completed line, the loop has read payload bytes
\* and waits with nothing received
C12_Witness ==
    /\ pc = "acc"
    /\ direc = 0 /\ lines > 0
    /\ Len(Reads) >= 2
    /\ rx = <<>>

\* the exploration ends here: the mode is RUN and MaxLines lines were run
LineBudgetSpent == pc = "engine" /\ direc = 0 /\ lines = MaxLines

(* C13: under a well-behaved sender every pass of the loop terminates:    *)
(* an accumulation loop is always left (the line-feed is read and the     *)
(* command committed), the engine step that follows always completes, and *)
(* passes complete again and again, scan lines in RUN mode and idle       *)
(* samples in IDLE mode (up to the MaxLines scan lines explored).         *)
C13_IterationsTerminate ==
    /\ (pc = "acc") ~> (pc = "engine")
    /\ (pc = "engine" /\ ~ LineBudgetSpent) ~> (pc = "end")
    /\ (pc = "engine" /\ direc = 0 /\ lines < MaxLines) ~> LineRan
    /\ []<>(pc = "end" \/ LineBudgetSpent)

\* a parameter command was committed in RUN mode and the scan line of the
\* same pass is complete
C13_Witness ==
    /\ LineRan
    /\ \E t \in AllParamTags : Processed(t)
    /\ Len(h_eng) = 1026

\* the step that commits the command with this tag: the line-feed is read
\* in the accumulation loop of its case
Commits(tag) == pc = "acc" /\ val = tag /\ rx # <<>> /\ Head(rx) = 10
\* the step that processes the mode command with this tag
Switches(tag) == pc = "top" /\ rx # <<>> /\ Head(rx) = tag
\* the engine step of a pass in RUN mode
ScansLine == pc = "engine" /\ direc = 0

\* the writers of startX, gap, delay_time and the mode, and what the steps
\* that process a command leave alone
C14_OwnWriters ==
    /\ startX' # startX => Commits(120)
    /\ gap' # gap => Commits(103)
    /\ delay_time' # delay_time => Commits(112)
    /\ direc' # direc => (Switches(117) \/ Switches(101))
    /\ Commits(120) => <<startY, gap, delay_time, direc>>' = <<startY, gap, delay_time, direc>>
    /\ Commits(121) => <<startX, gap, delay_time, direc>>' = <<startX, gap, delay_time, direc>>
    /\ Commits(103) => <<startX, startY, delay_time, direc>>' = <<startX, startY, delay_time, direc>>
    /\ Commits(112) => <<startX, startY, gap, direc>>' = <<startX, startY, gap, direc>>
    /\ (Switches(117) \/ Switches(101)) =>
          <<startX, startY, gap, delay_time>>' = <<startX, startY, gap, delay_time>>

(* C14 (as stated): every configuration field changes only in a step that *)
(* processes its own command (startX: x, startY: y, gap: g, delay_time:   *)
(* p, mode: u or e), and each command leaves the other fields unchanged.  *)
C14_AsStated ==
    [][C14_OwnWriters /\ (startY' # startY => Commits(121))]_vars

(* C14 (amended): as stated for startX, gap, delay_time and the mode;     *)
(* startY has two writers, the y command and the engine, which adds gap   *)
(* to it once in every scan line (startY += gap) and at no other time.    *)
C14_StartYAlsoAdvancedByEngine ==
    [][/\ C14_OwnWriters
       /\ startY' # startY =>
             (Commits(121) \/ (ScansLine /\ startY' = startY + gap))
       /\ ScansLine => startY' = startY + gap]_vars

\* a scan line with a positive gap is complete in a pass that processed
\* no y command: startY moved
C14_Witness ==
    /\ LineRan
    /\ ~ Processed(121)
    /\ gap > 0
    /\ startY = h_pre.startY + gap
    /\ startX = h_pre.startX /\ delay_time = h_pre.delay_time

\* startY when the engine step of this pass began: what the y command of
\* the pass gave, or else what the pass started with
YAtLineStart ==
    IF Processed(121)
    THEN Min2(255, DecValue(FirstN(DigitsOf(Payload), 3)))
    ELSE h_pre.startY

(* C15: startY is within 0..255 right after every y command; after a      *)
(* completed scan line it is its value at the start of the line plus gap, *)
(* with no clamp, so it can be above 255; the Y bus of a line shows       *)
(* startY modulo 256.                                                     *)
C15_NoReclampAfterAdvance ==
    /\ (pc = "engine" /\ Processed(121)) => (startY >= 0 /\ startY <= 255)
    /\ LineRan =>
          /\ startY = YAtLineStart + gap
          /\ h_eng[770] = <<"startY", YAtLineStart + gap>>
          /\ h_eng[1] = <<"Y", YAtLineStart % 256>>
          /\ PORTC = YAtLineStart % 256

\* a line that started with startY above 255 is complete: the Y bus shows
\* startY less 256
C15_Witness ==
    /\ LineRan
    /\ ~ Processed(121)
    /\ h_pre.startY > 255
    /\ PORTC = h_pre.startY - 256
    /\ startY > h_pre.startY

(* C16: a y, g or p command processed in RUN mode acts on the scan line   *)
(* of the same pass: the line writes the new startY to the Y bus, pauses  *)
(* for the new delay_time (as the unsigned parameter of the pause) at     *)
(* each of its 256 pixels, and advances startY by the new gap; the Y bus  *)
(* is written once and the pause is the same from the first to the last   *)
(* pixel of the line.                                                     *)
C16_CommittedValuesReachSameLine ==
    LineRan =>
        /\ Len(h_eng) = 1026
        /\ OneYWrite
        /\ \A n \in 1..256 : h_eng[3 * n] = <<"dwell", delay_time % 65536>>
        /\ delay_time >= 0 => \A n \in 1..256 : h_eng[3 * n][2] = delay_time
        /\ h_eng[770] = <<"startY", YAtLineStart + gap>>
        /\ h_eng[1] = <<"Y", YAtLineStart % 256>>
        /\ Processed(121) =>
              /\ h_eng[1] = <<"Y", PlainValue(121, FirstN(DigitsOf(Payload), 3))>>
              /\ gap = h_pre.gap /\ delay_time = h_pre.delay_time
        /\ Processed(103) =>
              /\ gap = PlainValue(103, FirstN(DigitsOf(Payload), 3))
              /\ startY = h_pre.startY + gap
              /\ delay_time = h_pre.delay_time
        /\ (Processed(112) /\ IsPlain(112, DigitsOf(Payload))) =>
              /\ delay_time = DecValue(DigitsOf(Payload))
              /\ gap = h_pre.gap

\* in RUN mode a p command changed delay_time and the line of the same
\* pass paused for the new value
C16_Witness ==
    /\ LineRan
    /\ Processed(112)
    /\ delay_time # h_pre.delay_time
    /\ h_pre.direc = 0
    /\ h_eng[3] = <<"dwell", delay_time>>
    /\ h_eng[768] = <<"dwell", delay_time>>

\* the digit buffer of a command and its digit capacity
BufferOf(tag) ==
    CASE tag = 120 -> inputfx
      [] tag = 121 -> inputfy
      [] tag = 103 -> inputgap
      [] tag = 112 -> inputpoint
CapacityOf(tag) == IF tag = 112 THEN 5 ELSE 3

\* the write index stays within the capacity, and so within the buffer of
\* capacity + 1 cells, the terminator included
C17_IndexWithinBuffer ==
    /\ pc = "acc" =>
          /\ j >= 0 /\ j <= CapacityOf(val)
          /\ j \in DOMAIN BufferOf(val)
          /\ DOMAIN BufferOf(val) = 0..CapacityOf(val)
          /\ j = Len(FirstN(DigitsOf(SubSeq(Reads, 2, Len(Reads))), CapacityOf(val)))
    /\ \A t \in AllParamTags :
          (pc = "engine" /\ Processed(t)) =>
              /\ j = Len(FirstN(DigitsOf(Payload), CapacityOf(t)))
              /\ j \in DOMAIN BufferOf(t)
              /\ BufferOf(t)[j] = 0
              /\ \A k \in 0..(j - 1) :
                    BufferOf(t)[k] = FirstN(DigitsOf(Payload), CapacityOf(t))[k + 1]

(* C17: during accumulation the write index never exceeds the digit       *)
(* capacity of the command (3 for x, y, g; 5 for p), so every write, the  *)
(* terminator included, is inside the buffer; digits after the capacity   *)
(* are discarded, and the value parsed from the buffer is the decimal     *)
(* value of the first capacity-many digits of the payload.                *)
C17_FirstDigitsValue ==
    /\ C17_IndexWithinBuffer
    /\ \A t \in AllParamTags :
          (pc = "engine" /\ Processed(t)) =>
              atoi(BufferOf(t)) = DecValue(FirstN(DigitsOf(Payload), CapacityOf(t)))

(* C18: at every boundary between two passes of the loop at which the     *)
(* mode is IDLE, the X bus and the Y bus both hold 0 (and so they do at   *)
(* every point of a pass at which the mode is IDLE).                      *)
C18_IdleBusesZero ==
    /\ (pc \in {"top", "end"} /\ direc = 2) => (PORTL = 0 /\ PORTC = 0)
    /\ direc # 0 => (direc = 2 /\ PORTL = 0 /\ PORTC = 0)

\* back in IDLE mode at a pass boundary after lines were scanned: the
\* buses, which the lines had moved, hold 0
C18_Witness ==
    /\ pc = "top"
    /\ direc = 2
    /\ lines > 0
    /\ PORTL = 0 /\ PORTC = 0

(* C19: the X origin has no influence on the scan.  Whatever the x        *)
(* commands of a run carried, what a pass puts on the X bus, the Y bus    *)
(* and the serial line is given by expressions in which neither startX    *)
(* nor an x payload occurs: a scan line writes Y with startY modulo 256,  *)
(* X with 0..255, samples at these positions and sends these samples; an  *)
(* idle pass sends the sample at the position the buses hold; the         *)
(* acknowledgement depends on the mode alone; and an x command changes no *)
(* field but startX, so two runs that differ only in their x payloads do  *)
(* the same on both buses and on the serial line.                         *)
C19_XOriginUnused ==
    /\ (pc = "engine" /\ Processed(120)) =>
          /\ [Config EXCEPT !.startX = 0] = [h_pre EXCEPT !.startX = 0]
          /\ Acks = (IF direc = 0 THEN <<(<<"print", 97>>)>> ELSE <<>>)
          /\ \A n \in 1..Len(h_cmd) : h_cmd[n][1] \in {"read", "print"}
    /\ LineRan =>
          /\ Len(h_eng) = 1026
          /\ h_eng[1] = <<"Y", YAtLineStart % 256>>
          /\ \A n \in 1..256 :
                /\ h_eng[3 * n - 1] = <<"X", n - 1>>
                /\ h_eng[3 * n] = <<"dwell", delay_time % 65536>>
                /\ h_eng[3 * n + 1] = <<"adc", analogRead(n - 1, PORTC, surf)>>
                /\ h_eng[770 + n] = <<"println", analogRead(n - 1, PORTC, surf)>>
          /\ h_eng[770] = <<"startY", YAtLineStart + gap>>
          /\ PORTL = 255
    /\ (pc = "end" /\ direc # 0) =>
          h_eng = <<(<<"adc", analogRead(PORTL, PORTC, surf)>>),
                    (<<"println", analogRead(PORTL, PORTC, surf)>>)>>

\* an x command set a non-zero X origin in RUN mode and the line of the
\* same pass swept X from 0 to 255
C19_Witness ==
    /\ LineRan
    /\ Processed(120)
    /\ startX > 0
    /\ h_eng[2] = <<"X", 0>>
    /\ h_eng[767] = <<"X", 255>>

(* C20: a tag byte that is none of x, y, g, p, u, e is consumed alone: the *)
(* pass reads no other byte and enters no accumulation loop, no           *)
(* configuration field and no bus is changed by it, and the engine step   *)
(* of the pass runs from the state the pass started with: a scan line     *)
(* from the old startY, gap and delay_time in RUN mode, one idle sample   *)
(* with everything unchanged in IDLE mode.                                *)
C20_OtherTagConsumedAlone ==
    /\ pc = "acc" => (Reads # <<>> /\ Reads[1] \in AllParamTags)
    /\ (Interpreted /\ Reads # <<>> /\ Reads[1] \notin CommandTags) =>
          /\ Len(Reads) = 1
          /\ \A n \in 1..Len(h_cmd) : h_cmd[n][1] \in {"read", "print"}
          /\ pc = "engine" => Config = h_pre
          /\ LineRan =>
                /\ h_pre.direc = 0
                /\ h_eng[1] = <<"Y", h_pre.startY % 256>>
                /\ \A n \in 1..256 :
                      h_eng[3 * n] = <<"dwell", h_pre.delay_time % 65536>>
                /\ startY = h_pre.startY + h_pre.gap
                /\ [Config EXCEPT !.startY = 0, !.PORTL = 0, !.PORTC = 0]
                      = [h_pre EXCEPT !.startY = 0, !.PORTL = 0, !.PORTC = 0]
          /\ (pc = "end" /\ direc # 0) =>
                /\ Config = h_pre
                /\ IdleShape(h_eng)

\* a line-feed was consumed as a tag of its own in RUN mode and the scan
\* line of the pass ran
C20_Witness ==
    /\ LineRan
    /\ Reads = <<10>>
    /\ h_pre.direc = 0
    /\ Len(h_eng) = 1026

====
